---- MODULE Spec2Model ----
(***************************************************************************)
(* Model of docs/xhive/analysis_diagram.py: the hive_diagram Sphinx        *)
(* directive, generate_dot_diagram with its two module-level temp-file     *)
(* slots, and the build-finished hook cleanup_tmp_files.                   *)
(*                                                                         *)
(* Strings and file contents are sequences of tokens (one token per        *)
(* character of user text, one token per fixed piece of boilerplate).      *)
(* The file system is a function from the paths that exist to contents.    *)
(***************************************************************************)
EXTENDS Integers, Sequences, FiniteSets, TLC

\* ---------------------------------------------------------------- bounds
\* number of times the build-finished hook is run in the process
MaxCleanups == 2
\* number of content lines of a hive_diagram block
MaxLines == 2

\* characters of block text
Chars == {"a"}
\* random parts tempfile can pick for a name
RandNames == {"x1", "x2"}

None == <<"None">>

StringsUpTo(n) == UNION {[1..k -> Chars] : k \in 0..n}

\* a content line of a directive block: empty or one character
Lines == StringsUpTo(1)

\* ------------------------------------------------------ string operations
\* '\n'.join(lines)
RECURSIVE join(_)
join(lines) ==
    IF Len(lines) = 0 THEN <<>>
    ELSE IF Len(lines) = 1 THEN lines[1]
    ELSE lines[1] \o <<"\n">> \o join(Tail(lines))

\* os.path.sep
sep == "/"

\* os.path.basename(p): what follows the last separator
basename(p) ==
    LET idx == {i \in 1..Len(p) : p[i] = sep}
        last == IF idx = {} THEN 0 ELSE CHOOSE i \in idx : \A j \in idx : j <= i
    IN  SubSeq(p, last + 1, Len(p))

\* os.path.join(a, b, c) for relative b, c and a without trailing separator
path_join(a, b, c) == a \o <<sep, b, sep, c>>

\* s[:-3]
StripLast3(s) == SubSeq(s, 1, Len(s) - 3)

\* the pipeconfig_template string, as the three pieces around its two %s
TemplateHead == <<"\npackage ">>
TemplateMid == <<";\n\nuse strict; ... my $all_analyses = [">>
TemplateTail == <<"]; ... return $all_analyses;\n}\n\n1;\n">>

\* pipeconfig_template % (package_name, pipeconfig_content)
pipeconfig_template(package_name, pipeconfig_content) ==
    TemplateHead \o package_name \o TemplateMid \o pipeconfig_content \o TemplateTail

\* --------------------------------------------------------------- JSON
GraphKeys == {"Pad", "DisplayStats", "DisplayDBIDs", "DisplayDetails"}

\* the dictionary literal given to json.dumps
display_config ==
    [Graph |-> [Pad |-> 0, DisplayStats |-> 0, DisplayDBIDs |-> 0, DisplayDetails |-> 0]]

\* the keys in the order of the literal, lines 80-83
LiteralOrder == <<"Pad", "DisplayStats", "DisplayDBIDs", "DisplayDetails">>

\* every order in which the dictionary's keys could be iterated
KeyOrders == {o \in [1..Cardinality(GraphKeys) -> GraphKeys] :
                 \A i, j \in DOMAIN o : o[i] = o[j] => i = j}

DigitOf(n) == IF n = 0 THEN "0" ELSE "1"
ValueOf(d) == IF d = "0" THEN 0 ELSE 1

RECURSIVE dumps_items(_, _)
dumps_items(obj, order) ==
    IF Len(order) = 0 THEN <<>>
    ELSE <<order[1], ":", DigitOf(obj[order[1]])>>
         \o (IF Len(order) > 1 THEN <<",">> ELSE <<>>)
         \o dumps_items(obj, Tail(order))

\* json.dumps(obj), the inner dictionary iterated in the given order
json_dumps(obj, order) ==
    <<"{", "Graph", ":", "{">> \o dumps_items(obj.Graph, order) \o <<"}", "}">>

\* the module global of lines 78-85. json.dumps emits the keys in the
\* dictionary's iteration order; the literal's order stands for it here
display_config_json == json_dumps(display_config, LiteralOrder)

Whitespace == {"\n", " "}

RECURSIVE strip(_)
strip(s) ==
    IF Len(s) = 0 THEN s
    ELSE IF s[1] \in Whitespace THEN strip(Tail(s))
    ELSE IF s[Len(s)] \in Whitespace THEN strip(SubSeq(s, 1, Len(s) - 1))
    ELSE s

\* json.loads(text) for a document of the shape {"Graph": {k: d, ...}}:
\* [ok |-> TRUE, value |-> the object], or [ok |-> FALSE] for a ValueError
json_loads(text) ==
    LET s == strip(text)
        n == Len(s)
        body == SubSeq(s, 5, n - 2)
        m == Len(body)
        cnt == (m + 1) \div 4
        wellFormed ==
            /\ n >= 6
            /\ SubSeq(s, 1, 4) = <<"{", "Graph", ":", "{">>
            /\ SubSeq(s, n - 1, n) = <<"}", "}">>
            /\ \/ m = 0
               \/ /\ (m + 1) % 4 = 0
                  /\ \A i \in 1..cnt :
                        /\ body[4 * i - 3] \in GraphKeys
                        /\ body[4 * i - 2] = ":"
                        /\ body[4 * i - 1] \in {"0", "1"}
                        /\ i < cnt => body[4 * i] = ","
        keys == {body[4 * i - 3] : i \in 1..cnt}
        valueFor(k) ==
            LET i == CHOOSE j \in 1..cnt :
                        /\ body[4 * j - 3] = k
                        /\ \A l \in 1..cnt : body[4 * l - 3] = k => l <= j
            IN  ValueOf(body[4 * i - 1])
    IN  IF wellFormed
        THEN [ok |-> TRUE, value |-> [Graph |-> [k \in keys |-> valueFor(k)]]]
        ELSE [ok |-> FALSE]

\* ------------------------------------------------------------ file system
VARIABLES
    json_filename,        \* module global, line 88
    pipeconfig_filename,  \* module global, line 89
    disk,                 \* the files under _build: path -> content
    last,                 \* the last operation run: its inputs and its outcome
    cleanups,             \* runs of the build-finished hook so far
    pipeconfig_args       \* every -pipeconfig argument passed so far

vars == <<json_filename, pipeconfig_filename, disk, last,
          cleanups, pipeconfig_args>>

PmSuffix == <<".", "p", "m">>
NoSuffix == <<>>

\* the name tempfile builds in dir "_build" from a random part and a suffix
tmp_path(r, suffix) == <<"_build", sep, "tmp", r>> \o suffix

IsPm(p) == Len(p) >= 3 /\ SubSeq(p, Len(p) - 2, Len(p)) = PmSuffix

\* tempfile.NamedTemporaryFile(..., delete = False): a new empty file
NamedTemporaryFile(d, p) == [x \in DOMAIN d \cup {p} |-> IF x = p THEN <<>> ELSE d[x]]

\* open(p, "r+") would keep the old bytes: the file is not truncated
open_keep(d, p) == [x \in DOMAIN d \cup {p} |-> IF x \in DOMAIN d THEN d[x] ELSE <<>>]

\* open(p, "w"): the file is created if missing and truncated to length 0
open_w(d, p) == [x \in DOMAIN d \cup {p} |-> IF x = p THEN <<>> ELSE d[x]]

\* fh.write(data) at position 0 of file p: data replaces the first Len(data)
\* bytes, whatever lies beyond them stays
write(d, p, data) ==
    [d EXCEPT ![p] = data \o SubSeq(@, Len(data) + 1, Len(@))]

\* print >> fh, data : the data, then a newline
print_to(d, p, data) == write(d, p, data \o <<"\n">>)

\* os.remove(p) of an existing file
os_remove(d, p) == [x \in DOMAIN d \ {p} |-> d[x]]

\* ------------------------------------------------------------- outcomes
NoExc == [type |-> "None"]
KeyError == [type |-> "KeyError", key |-> "EHIVE_ROOT_DIR"]
OSError == [type |-> "OSError", errno |-> "ENOENT"]
CalledProcessError(returncode, cmd, output) ==
    [type |-> "CalledProcessError", returncode |-> returncode, cmd |-> cmd,
     output |-> output]

Return(v, err) == [kind |-> "return", value |-> v, exc |-> NoExc, stderr |-> err]
Raise(e, err) == [kind |-> "raise", value |-> None, exc |-> e, stderr |-> err]

\* ----------------------------------------------------- external program
\* what the program at graph_path does when launched: whether it can be
\* launched at all, its exit status, its standard output (echo: the content
\* of its -pipeconfig file) and what it writes on its standard error
Procs ==
    { [launch |-> FALSE, status |-> 0, echo |-> FALSE, stdout |-> <<>>, stderr |-> <<>>],
      [launch |-> TRUE, status |-> 0, echo |-> TRUE, stdout |-> <<>>, stderr |-> <<>>],
      [launch |-> TRUE, status |-> 1, echo |-> FALSE, stdout |-> <<"partial">>,
       stderr |-> <<"error text">>] }

NoProc == [launch |-> FALSE, status |-> 0, echo |-> FALSE, stdout |-> <<>>, stderr |-> <<>>]

\* values of os.environ.get("EHIVE_ROOT_DIR")
EhiveRoot == <<"/opt/ehive">>
Envs == {None, EhiveRoot}

\* os.environ.get("EHIVE_ROOT_DIR", ""): no KeyError
environ_get(env) == [ok |-> TRUE, value |-> IF env = None THEN <<>> ELSE env]

\* os.environ["EHIVE_ROOT_DIR"], line 103
environ_lookup(env) ==
    IF env = None THEN [ok |-> FALSE, value |-> None] ELSE [ok |-> TRUE, value |-> env]

NoSpawn == [spawned |-> FALSE]

\* subprocess.check_output that captures stderr (stderr=subprocess.STDOUT
\* style): the error stream ends up in the output
check_output_capture(proc, d, args) ==
    LET out == IF proc.echo
               THEN (IF args.pipeconfig \in DOMAIN d THEN d[args.pipeconfig] ELSE <<>>)
               ELSE proc.stdout
    IN  IF ~proc.launch THEN Raise(OSError, <<>>)
        ELSE IF proc.status # 0
             THEN Raise(CalledProcessError(proc.status, args, proc.stderr), <<>>)
             ELSE Return(out, <<>>)

\* subprocess.check_output(args, stderr=sys.stderr), line 120
check_output(proc, d, args) ==
    LET out == IF proc.echo
               THEN (IF args.pipeconfig \in DOMAIN d THEN d[args.pipeconfig] ELSE <<>>)
               ELSE proc.stdout
    IN  IF ~proc.launch THEN Raise(OSError, <<>>)
        ELSE IF proc.status # 0
             THEN Raise(CalledProcessError(proc.status, args, out), proc.stderr)
             ELSE Return(out, proc.stderr)

\* ------------------------------------------------- generate_dot_diagram
\* "if json_filename is None" replaced by a test that always succeeds
json_slot_always_empty(slot) == TRUE

\* line 95: is the options file still to be created?
json_slot_empty(slot) == slot = None

\* the options file written again, after what it holds, on every call
options_file_append(d, slot, name) ==
    IF json_slot_empty(slot)
    THEN print_to(NamedTemporaryFile(d, name), name, display_config_json)
    ELSE IF slot \in DOMAIN d
         THEN [d EXCEPT ![slot] = @ \o display_config_json \o <<"\n">>]
         ELSE d

\* lines 95-99: the options file is created and written when the slot is
\* empty, and left alone otherwise
options_file(d, slot, name) ==
    IF json_slot_empty(slot)
    THEN print_to(NamedTemporaryFile(d, name), name, display_config_json)
    ELSE d

\* "if pipeconfig_filename is None" replaced by a test that always succeeds
pipeconfig_slot_always_empty(slot) == TRUE

\* line 107: is the wrapped-source file still to be created?
pipeconfig_slot_empty(slot) == slot = None

\* the argument list of line 120
command_line(graph_path, pipeconfig, default_config_file, json) ==
    [exe |-> graph_path, pipeconfig |-> pipeconfig, format |-> "dot",
     config_files |-> <<default_config_file, json>>]

\* The body of generate_dot_diagram(pipeconfig_content), run from the current
\* state with EHIVE_ROOT_DIR = env (None: unset), rj and rp the random parts
\* tempfile would pick, and proc the behaviour of the external program.
\* The value is the state it leaves and how it ends.
generate_dot_diagram(pipeconfig_content, env, rj, rp, proc) ==
    LET \* lines 94-100
        json_new == json_slot_empty(json_filename)
        json_fh_name == tmp_path(rj, NoSuffix)
        disk1 == options_file(disk, json_filename, json_fh_name)
        json1 == IF json_new THEN json_fh_name ELSE json_filename
        \* line 103
        root == environ_lookup(env)
    IN  IF ~root.ok
        THEN [json_filename |-> json1, pipeconfig_filename |-> pipeconfig_filename,
              disk |-> disk1, result |-> Raise(KeyError, <<>>), spawn |-> NoSpawn]
        ELSE
        LET default_config_file == root.value \o <<sep, "hive_config.json">>
            \* lines 106-111
            pipeconfig_new == pipeconfig_slot_empty(pipeconfig_filename)
            pipeconfig_fh_name == IF pipeconfig_new THEN tmp_path(rp, PmSuffix)
                                  ELSE pipeconfig_filename
            disk2 == IF pipeconfig_new THEN NamedTemporaryFile(disk1, pipeconfig_fh_name)
                     ELSE open_w(disk1, pipeconfig_fh_name)
            \* lines 113-116
            package_name == <<"_build::">> \o StripLast3(basename(pipeconfig_fh_name))
            disk3 == print_to(disk2, pipeconfig_fh_name,
                              pipeconfig_template(package_name, pipeconfig_content))
            \* lines 119-120
            graph_path == path_join(root.value, "scripts", "generate_graph.pl")
            args == command_line(graph_path, pipeconfig_fh_name, default_config_file, json1)
        IN  [json_filename |-> json1, pipeconfig_filename |-> pipeconfig_fh_name,
             disk |-> disk3, result |-> check_output(proc, disk3, args),
             spawn |-> [spawned |-> TRUE, args |-> args,
                        pipeconfig_exists |-> args.pipeconfig \in DOMAIN disk3,
                        json_exists |-> args.config_files[2] \in DOMAIN disk3]]

\* the random parts tempfile can pick for a file with the given suffix when
\* one is to be created (never the name of an existing file)
TempNames(create, suffix) ==
    IF create THEN {r \in RandNames : tmp_path(r, suffix) \notin DOMAIN disk}
    ELSE {CHOOSE r \in RandNames : TRUE}

\* the external program only matters when the call gets as far as line 120
ProcsFor(env) == IF environ_lookup(env).ok THEN Procs ELSE {NoProc}

NoTable == <<>>

\* ListTable.build_table_from_list(table, 'auto', [50,50], 0, 0), line 55
build_table_from_list(table, col_widths, header_rows, stub_columns) ==
    [node |-> "table", rows |-> table, col_widths |-> col_widths,
     header_rows |-> header_rows, stub_columns |-> stub_columns]

\* the directive building its table although generate_dot_diagram raised
table_always(result, table) == <<build_table_from_list(table, <<50, 50>>, 0, 0)>>

\* lines 51-56: an exception raised at line 51 leaves run at once
table_nodes(result, table) ==
    IF result.kind = "raise" THEN NoTable
    ELSE <<build_table_from_list(table, <<50, 50>>, 0, 0)>>

\* HiveDiagramDirective.run with self.content = lines, lines 43-56
run(lines, env, rj, rp, proc) ==
    LET content == join(lines)
        code_block_node == [node |-> "literal_block", text |-> content]
        g == generate_dot_diagram(content, env, rj, rp, proc)
        graphviz_node == [node |-> "graphviz", code |-> g.result.value,
                          options |-> <<>>]
        table == <<<<code_block_node, graphviz_node>>>>
    IN  [g |-> g, content |-> content, nodes |-> table_nodes(g.result, table)]

\* the build renders one hive_diagram block
RunDirective ==
    \E n \in 0..MaxLines : \E lines \in [1..n -> Lines] :
    \E env \in Envs : \E proc \in ProcsFor(env) :
    \E rj \in TempNames(json_slot_empty(json_filename), NoSuffix) :
    \E rp \in TempNames(pipeconfig_slot_empty(pipeconfig_filename), PmSuffix) :
        LET r == run(lines, env, rj, rp, proc)
        IN  /\ json_filename' = r.g.json_filename
            /\ pipeconfig_filename' = r.g.pipeconfig_filename
            /\ disk' = r.g.disk
            /\ pipeconfig_args' = IF r.g.spawn.spawned
                                  THEN pipeconfig_args \cup {r.g.spawn.args.pipeconfig}
                                  ELSE pipeconfig_args
            /\ last' = [op |-> "run", content |-> r.content, env |-> env,
                        proc |-> proc, result |-> r.g.result, spawn |-> r.g.spawn,
                        nodes |-> r.nodes,
                        first |-> pipeconfig_filename = None,
                        shorter |-> /\ pipeconfig_filename \in DOMAIN disk
                                    /\ r.g.spawn.spawned
                                    /\ Len(r.g.disk[pipeconfig_filename])
                                         < Len(disk[pipeconfig_filename])]
            /\ UNCHANGED cleanups

\* ---------------------------------------------------- cleanup_tmp_files
\* the hook without its second removal
cleanup_json_only(jf, pf, d) ==
    IF jf # None /\ jf \notin DOMAIN d THEN [disk |-> d, result |-> Raise(OSError, <<>>)]
    ELSE [disk |-> IF jf # None THEN os_remove(d, jf) ELSE d,
          result |-> Return(None, <<>>)]

\* cleanup_tmp_files(app, exception), lines 125-129: os.remove raises
\* OSError on a path that does not exist, and the hook stops there
cleanup_tmp_files(jf, pf, d) ==
    IF jf # None /\ jf \notin DOMAIN d THEN [disk |-> d, result |-> Raise(OSError, <<>>)]
    ELSE LET d1 == IF jf # None THEN os_remove(d, jf) ELSE d
         IN  IF pf # None /\ pf \notin DOMAIN d1
             THEN [disk |-> d1, result |-> Raise(OSError, <<>>)]
             ELSE [disk |-> IF pf # None THEN os_remove(d1, pf) ELSE d1,
                   result |-> Return(None, <<>>)]

\* the build-finished event fires
Cleanup ==
    /\ cleanups < MaxCleanups
    /\ LET c == cleanup_tmp_files(json_filename, pipeconfig_filename, disk)
       IN  /\ disk' = c.disk
           /\ last' = [op |-> "cleanup_tmp_files", content |-> <<>>, env |-> None,
                       proc |-> NoProc, result |-> c.result, spawn |-> NoSpawn,
                       nodes |-> NoTable, first |-> FALSE,
                       shorter |-> FALSE]
    /\ cleanups' = cleanups + 1
    /\ UNCHANGED <<json_filename, pipeconfig_filename, pipeconfig_args>>

\* ------------------------------------------------------- specification
\* the module has been imported and setup(app) has registered the directive
\* and the hook; nothing has been rendered yet
Init ==
    /\ json_filename = None
    /\ pipeconfig_filename = None
    /\ disk = <<>>
    /\ last = [op |-> "setup", content |-> <<>>, env |-> None, proc |-> NoProc,
               result |-> Return(None, <<>>), spawn |-> NoSpawn, nodes |-> NoTable,
               first |-> FALSE, shorter |-> FALSE]
    /\ cleanups = 0
    /\ pipeconfig_args = {}

Next == RunDirective \/ Cleanup

Spec == Init /\ [][Next]_vars

\* ------------------------------------------------------------- claims
PmFiles == {p \in DOMAIN disk : IsPm(p)}
OptionsFiles == DOMAIN disk \ PmFiles

IsCall == last.op = "run"
IsCleanup == last.op = "cleanup_tmp_files"

\* C1: whatever the calls made and however they ended, at most one
\* wrapped-source (.pm) file and at most one options file exist on disk.
C1_AtMostOneOfEach ==
    /\ Cardinality(PmFiles) <= 1
    /\ Cardinality(OptionsFiles) <= 1

\* a later call has succeeded and both files are there
C1_Witness ==
    /\ IsCall /\ ~last.first /\ last.result.kind = "return"
    /\ Cardinality(PmFiles) = 1
    /\ Cardinality(OptionsFiles) = 1

\* C2: right after the first run of the hook, neither temp file path exists
\* and no file the component created is left.
C2_CleanupRemovesAll ==
    (IsCleanup /\ cleanups = 1) =>
        /\ json_filename \notin DOMAIN disk
        /\ pipeconfig_filename \notin DOMAIN disk
        /\ DOMAIN disk = {}

\* the hook has run once with both slots populated
C2_Witness ==
    /\ IsCleanup /\ cleanups = 1
    /\ json_filename # None /\ pipeconfig_filename # None
    /\ last.result.kind = "return"

\* C3: the hook never raises, in particular not when it is run a second time.
C3_CleanupNeverRaises == IsCleanup => last.result.kind = "return"

\* C4: with EHIVE_ROOT_DIR unset the call fails on the lookup and launches
\* no external process, on the first call and on every later one.
C4_FailFast ==
    (IsCall /\ last.env = None) =>
        /\ last.result.kind = "raise"
        /\ last.result.exc.type = "KeyError"
        /\ ~last.spawn.spawned

\* a later call, made with the variable unset after an earlier one had it
C4_Witness ==
    /\ IsCall /\ last.env = None /\ ~last.first
    /\ last.result.kind = "raise"

ProcessFailed == ~last.proc.launch \/ last.proc.status # 0

\* C5: when the external program exits non-zero or cannot be launched,
\* generate_dot_diagram raises instead of returning a string and the
\* directive returns no table node.
C5_NoTableOnFailure ==
    (IsCall /\ last.spawn.spawned /\ ProcessFailed) =>
        /\ last.result.kind = "raise"
        /\ last.result.exc.type \in {"CalledProcessError", "OSError"}
        /\ last.result.value = None
        /\ last.nodes = NoTable

C5_Witness ==
    /\ IsCall /\ last.spawn.spawned /\ last.proc.launch /\ last.proc.status # 0
    /\ last.nodes = NoTable

ExitedNonZero == IsCall /\ last.spawn.spawned /\ last.proc.launch /\ last.proc.status # 0

\* what the program wrote on its standard output
StdoutOf(proc, pipeconfig) ==
    IF proc.echo THEN disk[pipeconfig] ELSE proc.stdout

\* C6 as stated: on a non-zero exit the failure carries the exit status and
\* the captured content of the program's error stream.
C6_CarriesStderr ==
    ExitedNonZero =>
        /\ last.result.exc.type = "CalledProcessError"
        /\ last.result.exc.returncode = last.proc.status
        /\ last.result.exc.output = last.proc.stderr

\* C6 amended: on a non-zero exit the failure carries the exit status and the
\* captured standard output; the error stream is not captured, it goes to
\* the build's own error stream.
C6_CarriesStatusAndStdout ==
    ExitedNonZero =>
        /\ last.result.exc.type = "CalledProcessError"
        /\ last.result.exc.returncode = last.proc.status
        /\ last.result.exc.output = StdoutOf(last.proc, last.spawn.args.pipeconfig)
        /\ last.result.stderr = last.proc.stderr

C6_Witness ==
    /\ ExitedNonZero
    /\ last.proc.stderr # <<>>
    /\ last.result.exc.output # last.proc.stderr

EchoStubSucceeded ==
    /\ IsCall /\ last.spawn.spawned
    /\ last.proc.launch /\ last.proc.echo /\ last.proc.status = 0

\* the package name a wrapped-source path _build/tmp<r>.pm stands for
PackageOf(path) == <<"_build::", "tmp", path[4]>>

\* the template with the call's package name and block text filled in
Rendered ==
    TemplateHead \o PackageOf(last.spawn.args.pipeconfig) \o TemplateMid
        \o last.content \o TemplateTail

\* C7 as stated: with the echoing stub every call returns exactly the
\* rendered template.
C7_ReturnsRendered == EchoStubSucceeded => last.result.value = Rendered

\* C7 amended: with the echoing stub every call returns the rendered template
\* followed by the newline the print statement adds, with nothing left of an
\* earlier, longer wrapped source.
C7_ReturnsRenderedLine ==
    EchoStubSucceeded =>
        /\ last.result.kind = "return"
        /\ last.result.value = Rendered \o <<"\n">>

\* a later call whose wrapped source is shorter than the one it replaces
C7_Witness == EchoStubSucceeded /\ ~last.first /\ last.shorter

\* C8: the wrapped-source slot, once populated, never changes, and every
\* -pipeconfig argument is that one path.
C8_PathStability ==
    [][/\ pipeconfig_filename # None => pipeconfig_filename' = pipeconfig_filename
       /\ pipeconfig_args' \subseteq {pipeconfig_filename'}
       /\ last'.spawn.spawned => last'.spawn.args.pipeconfig = pipeconfig_filename']_vars

\* a second call has reached the external program
C8_Witness ==
    /\ IsCall /\ ~last.first /\ last.spawn.spawned
    /\ pipeconfig_args = {pipeconfig_filename}

FixedPayload ==
    [Graph |-> [Pad |-> 0, DisplayStats |-> 0, DisplayDBIDs |-> 0, DisplayDetails |-> 0]]

\* C9: from the first call until the hook runs the options file exists and
\* deserializes to exactly the fixed payload (in whatever order json.dumps
\* emitted the keys).
C9_OptionsFileFixed ==
    /\ (json_filename # None /\ cleanups = 0) =>
          /\ json_filename \in DOMAIN disk
          /\ json_loads(disk[json_filename]) = [ok |-> TRUE, value |-> FixedPayload]
    /\ \A o \in KeyOrders :
          json_loads(json_dumps(display_config, o) \o <<"\n">>)
              = [ok |-> TRUE, value |-> FixedPayload]

\* several diagrams have been rendered and the hook has not run
C9_Witness ==
    /\ IsCall /\ ~last.first /\ cleanups = 0
    /\ json_filename \in DOMAIN disk

\* C10: whenever the external program is invoked, the wrapped-source file
\* and the generated options file named in its arguments exist.
C10_FilesExistAtSpawn ==
    (IsCall /\ last.spawn.spawned) =>
        /\ last.spawn.pipeconfig_exists
        /\ last.spawn.json_exists

====
